---- MODULE Spec2Model ----
(***************************************************************************)
(* A model of ai_tutor.py: the retry loop of ask_gemini, the extraction of *)
(* failure excerpts from pytest JSON reports and the assembly of the       *)
(* prompt.  Python strings are TLA+ strings, concatenated with \o.         *)
(***************************************************************************)
EXTENDS Integers, Sequences, FiniteSets, TLC

VARIABLES
    \* ---- ask_gemini ----
    retry_delay_sec,    \* parameter retry_delay_sec
    max_retry_attempt,  \* parameter max_retry_attempt
    timeout_sec,        \* parameter timeout_sec
    attempt,            \* the loop variable of `for attempt in range(...)`
    pc,                 \* the position of the running function
    elapsed,            \* time.monotonic() - start_time
    checked_at,         \* the value of elapsed read by the last timeout check
    response,           \* the response of the last requests.post
    answer,             \* the local variable answer
    calls,              \* the requests sent so far: what the transport saw
    sleeps,             \* the arguments of the time.sleep calls so far
    exit_by,            \* how the for loop was left
    \* ---- collect_longrepr ----
    data,               \* the parsed report passed to collect_longrepr
    longrepr_list,      \* what collect_longrepr returned
    \* ---- get_prompt ----
    report_paths,       \* the report files, in the order given
    student_files,      \* the student files, in the order given
    readme_file,        \* the instruction file
    explanation_in,     \* the language asked for
    pytest_longrepr_list, \* the local variable of get_prompt
    prompt_list,        \* the local variable of get_prompt
    prompt_str,         \* the local variable of get_prompt
    exception,          \* the exception that ended the call, "" if none
    \* ---- load_locale and its lru_cache ----
    locale_cache,       \* the cache of load_locale: per language, the mapping kept
    locale_loads,       \* per language, how often the body of load_locale ran
    loaded,             \* what the last call of load_locale gave
    \* ---- the prompt split again on its markers ----
    prompt_lines,       \* prompt_str.split("\n")
    recovered,          \* the instructions and the files read back from it
    \* ---- assignment_code and its lru_cache ----
    code_cache,         \* the cache of assignment_code, least recently used first
    code_seen,          \* the path tuples assignment_code was called with
    code_pool,          \* the path tuples the callers pass again and again
    code_since,         \* per such tuple, the other tuples passed since its last call
    code_call           \* what the last call of assignment_code did

retry_vars == <<retry_delay_sec, max_retry_attempt, timeout_sec, attempt, pc,
                elapsed, checked_at, response, answer, calls, sleeps, exit_by>>

collect_vars == <<data, longrepr_list>>

prompt_vars == <<report_paths, student_files, readme_file, explanation_in,
                 pytest_longrepr_list, prompt_list, prompt_str, exception>>

locale_vars == <<locale_cache, locale_loads, loaded>>

split_vars == <<prompt_lines, recovered>>

code_vars == <<code_cache, code_seen, code_pool, code_since, code_call>>

extra_vars == <<locale_vars, split_vars, code_vars>>

vars == <<retry_vars, collect_vars, prompt_vars, extra_vars>>

-----------------------------------------------------------------------------
(* Bounds of the model *)

MaxRetryAttempt == 4
MaxRetryDelay == 2
MaxTimeout == 8
MaxRequestSec == 1

(* Constants of the program *)

RESOURCE_EXHAUSTED == 429
HTTP_OK == 200
DEFAULT_RETRY_DELAY_SEC == 5
DEFAULT_MAX_RETRY_ATTEMPT == 3
DEFAULT_TIMEOUT_SEC == 60

-----------------------------------------------------------------------------
(* Python values *)

\* None, and a str, as the value of `answer`
None == [some |-> FALSE, text |-> ""]
Str(t) == [some |-> TRUE, text |-> t]

\* sep.join(strs), with strs a sequence of strings
RECURSIVE str_join(_, _)
str_join(sep, strs) ==
    IF strs = <<>> THEN ""
    ELSE IF Len(strs) = 1 THEN strs[1]
    ELSE strs[1] \o sep \o str_join(sep, Tail(strs))

-----------------------------------------------------------------------------
(* The transport: the statuses and the bodies a response may carry *)

Statuses == {HTTP_OK, RESOURCE_EXHAUSTED, 500}

TextPart(t) == [has_text |-> TRUE, text |-> t]
PartNoText == [has_text |-> FALSE, text |-> ""]
Cand(parts) == [has_parts |-> TRUE, parts |-> parts]
CandNoParts == [has_parts |-> FALSE, parts |-> <<>>]
Envelope(cands) == [is_json |-> TRUE, has_candidates |-> TRUE, candidates |-> cands]
NotJsonBody == [is_json |-> FALSE, has_candidates |-> FALSE, candidates |-> <<>>]
NoCandidatesKey == [is_json |-> TRUE, has_candidates |-> FALSE, candidates |-> <<>>]

ResponseBodies ==
    { NotJsonBody,
      NoCandidatesKey,
      Envelope(<<>>),
      Envelope(<<CandNoParts>>),
      Envelope(<<Cand(<<>>)>>),
      Envelope(<<Cand(<<TextPart("Hint A")>>)>>),
      Envelope(<<Cand(<<TextPart("Hint A"), TextPart("Hint B")>>),
                 Cand(<<TextPart("Other")>>)>>),
      Envelope(<<Cand(<<TextPart("Hint B"), TextPart(""), TextPart("Hint A")>>)>>),
      Envelope(<<Cand(<<TextPart("Hint A"), PartNoText>>)>>) }

\* the body of a response that is not a success is only logged
BodiesOf(status) == IF status = HTTP_OK THEN ResponseBodies ELSE {NotJsonBody}

RequestDurations == {0, MaxRequestSec}

-----------------------------------------------------------------------------
(* ask_gemini: lines 31-82 *)

RetryDelays == {1, MaxRetryDelay, DEFAULT_RETRY_DELAY_SEC}
Timeouts == {0, 3, MaxTimeout, DEFAULT_TIMEOUT_SEC}

\* a loop over range(max_retry_attempt + 2), one attempt too many
AttemptRange_long(max) == 0 .. (max + 1)

\* a loop over range(max_retry_attempt), one attempt short
AttemptRange_short(max) == 0 .. (max - 1)

\* range(max_retry_attempt + 1)
AttemptRange(max) == 0 .. max

\* a deadline check that grants one base delay more than the budget
TimedOut_late(el, limit) == el > limit + DEFAULT_RETRY_DELAY_SEC

\* a loop that never looks at the clock
TimedOut_never(el, limit) == FALSE

\* line 59: time.monotonic() - start_time > timeout_sec
TimedOut(el, limit) == el > limit

\* line 72: attempt < max_retry_attempt
MayRetry(a, max) == a < max

\* a delay of retry_delay_sec * (2 * attempt)
BackoffDelay_linear(base, a) == base * (2 * a)

\* line 73: retry_delay_sec * (2 ** attempt)
BackoffDelay(base, a) == base * (2 ^ a)

\* lines 66-67: response.json() and the walk to the parts' texts succeed
JsonHasTexts(body) ==
    /\ body.is_json
    /\ body.has_candidates
    /\ Len(body.candidates) >= 1
    /\ body.candidates[1].has_parts
    /\ \A i \in 1 .. Len(body.candidates[1].parts) :
           body.candidates[1].parts[i].has_text

\* line 67: [part['text'] for part in result['candidates'][0]['content']['parts']]
PartTexts(body) ==
    [i \in 1 .. Len(body.candidates[1].parts) |-> body.candidates[1].parts[i].text]

\* the fragments joined with a space
AnswerOf_space(body) == str_join(" ", PartTexts(body))

\* line 68: '\n'.join(results)
AnswerOf(body) == str_join("\n", PartTexts(body))

NoResponse == [status |-> 0, body |-> NotJsonBody]

\* a Python dict with no key yet: the cache of an lru_cache at start
EmptyDict == [k \in {} |-> 0]

\* no call of load_locale yet
NotLoaded ==
    [language |-> "", hit |-> FALSE, raised |-> FALSE, exc |-> "",
     instance |-> 0, keys |-> {}]

\* the caches as the import of the module leaves them
IdleLocale ==
    /\ locale_cache = EmptyDict
    /\ locale_loads = EmptyDict
    /\ loaded = NotLoaded

\* nothing read back from a prompt yet
NotRecovered == [instructions |-> "", files |-> <<>>]

IdleSplit ==
    /\ prompt_lines = <<>>
    /\ recovered = NotRecovered

\* no call of assignment_code yet
NoCodeCall == [files |-> <<>>, fresh |-> FALSE, hit |-> FALSE, reads |-> 0,
               text |-> "", again |-> FALSE, recent |-> FALSE]

IdleCode ==
    /\ code_cache = <<>>
    /\ code_seen = {}
    /\ code_pool = {}
    /\ code_since = EmptyDict
    /\ code_call = NoCodeCall

IdleExtra == IdleLocale /\ IdleSplit /\ IdleCode

InitRetry ==
    /\ retry_delay_sec \in RetryDelays
    /\ max_retry_attempt \in 0 .. MaxRetryAttempt
    /\ timeout_sec \in Timeouts
    /\ attempt = 0
    /\ pc = "for"
    /\ elapsed = 0
    /\ checked_at = 0
    /\ response = NoResponse
    /\ answer = None
    /\ calls = <<>>
    /\ sleeps = <<>>
    /\ exit_by = "running"
    /\ data = [tests |-> <<>>]
    /\ longrepr_list = <<>>
    /\ report_paths = <<>>
    /\ student_files = <<>>
    /\ readme_file = [readable |-> FALSE, text |-> ""]
    /\ explanation_in = "English"
    /\ pytest_longrepr_list = <<>>
    /\ prompt_list = <<>>
    /\ prompt_str = ""
    /\ exception = ""
    /\ IdleExtra

\* line 58: the for statement takes the next attempt, or the range is used up
ForAttempt ==
    /\ pc = "for"
    /\ UNCHANGED <<collect_vars, prompt_vars, extra_vars>>
    /\ IF attempt \in AttemptRange(max_retry_attempt)
       THEN pc' = "check" /\ exit_by' = exit_by
       ELSE pc' = "return" /\ exit_by' = "exhausted"
    /\ UNCHANGED <<retry_delay_sec, max_retry_attempt, timeout_sec, attempt,
                   elapsed, checked_at, response, answer, calls, sleeps>>

\* lines 59-61: the deadline check before the attempt
CheckTimeout ==
    /\ pc = "check"
    /\ UNCHANGED <<collect_vars, prompt_vars, extra_vars>>
    /\ checked_at' = elapsed
    /\ IF TimedOut(elapsed, timeout_sec)
       THEN pc' = "return" /\ exit_by' = "timeout"
       ELSE pc' = "post" /\ exit_by' = exit_by
    /\ UNCHANGED <<retry_delay_sec, max_retry_attempt, timeout_sec, attempt,
                   elapsed, response, answer, calls, sleeps>>

\* line 63: requests.post blocks until the transport answers
Post ==
    /\ pc = "post"
    /\ UNCHANGED <<collect_vars, prompt_vars, extra_vars>>
    /\ \E status \in Statuses : \E body \in BodiesOf(status) :
       \E took \in RequestDurations :
          /\ response' = [status |-> status, body |-> body]
          /\ calls' = Append(calls, [status |-> status, attempt |-> attempt,
                                     checked_at |-> checked_at])
          /\ elapsed' = elapsed + took
    /\ pc' = "handle"
    /\ UNCHANGED <<retry_delay_sec, max_retry_attempt, timeout_sec, attempt,
                   checked_at, answer, sleeps, exit_by>>

\* lines 65-69: a 200 is parsed and ends the loop; a body without the
\* expected keys raises out of the function
HandleSuccess ==
    /\ pc = "handle"
    /\ UNCHANGED <<collect_vars, prompt_vars, extra_vars>>
    /\ response.status = HTTP_OK
    /\ IF JsonHasTexts(response.body)
       THEN /\ answer' = Str(AnswerOf(response.body))
            /\ pc' = "return"
            /\ exit_by' = "success"
       ELSE /\ answer' = answer
            /\ pc' = "raised"
            /\ exit_by' = "exception"
    /\ UNCHANGED <<retry_delay_sec, max_retry_attempt, timeout_sec, attempt,
                   elapsed, checked_at, response, calls, sleeps>>

\* lines 71-77: a 429 sleeps before the next attempt unless it was the last
HandleRateLimit ==
    /\ pc = "handle"
    /\ UNCHANGED <<collect_vars, prompt_vars, extra_vars>>
    /\ response.status # HTTP_OK
    /\ response.status = RESOURCE_EXHAUSTED
    /\ IF MayRetry(attempt, max_retry_attempt)
       THEN /\ sleeps' = Append(sleeps, BackoffDelay(retry_delay_sec, attempt))
            /\ elapsed' = elapsed + BackoffDelay(retry_delay_sec, attempt)
       ELSE /\ sleeps' = sleeps
            /\ elapsed' = elapsed
    /\ attempt' = attempt + 1
    /\ pc' = "for"
    /\ UNCHANGED <<retry_delay_sec, max_retry_attempt, timeout_sec,
                   checked_at, response, answer, calls, exit_by>>

\* lines 79-80: any other status is logged, and the loop goes on
HandleOther ==
    /\ pc = "handle"
    /\ UNCHANGED <<collect_vars, prompt_vars, extra_vars>>
    /\ response.status # HTTP_OK
    /\ response.status # RESOURCE_EXHAUSTED
    /\ attempt' = attempt + 1
    /\ pc' = "for"
    /\ UNCHANGED <<retry_delay_sec, max_retry_attempt, timeout_sec, elapsed,
                   checked_at, response, answer, calls, sleeps, exit_by>>

\* line 82: return answer
Return ==
    /\ pc = "return"
    /\ UNCHANGED <<collect_vars, prompt_vars, extra_vars>>
    /\ pc' = "done"
    /\ UNCHANGED <<retry_delay_sec, max_retry_attempt, timeout_sec, attempt,
                   elapsed, checked_at, response, answer, calls, sleeps, exit_by>>

Init == InitRetry

Next ==
    \/ ForAttempt
    \/ CheckTimeout
    \/ Post
    \/ HandleSuccess
    \/ HandleRateLimit
    \/ HandleOther
    \/ Return

Spec == Init /\ [][Next]_vars

\* the call goes on: the interpreter takes the next statement, requests.post
\* comes back with a response and time.sleep comes back
FairSpec == Spec /\ WF_vars(Next)

-----------------------------------------------------------------------------
(* Properties of ask_gemini *)

Returned == pc = "done"
Ended == pc \in {"done", "raised"}
StatusOf(i) == calls[i].status
AllCalls429 == \A i \in 1 .. Len(calls) : StatusOf(i) = RESOURCE_EXHAUSTED

\* the transport's script "429 for the first n calls, then 200", as far as
\* the run has consumed it
ConsistentWith(n) ==
    \A i \in 1 .. Len(calls) :
        StatusOf(i) = IF i <= n THEN RESOURCE_EXHAUSTED ELSE HTTP_OK

\* retry_delay_sec * 2^0, ..., retry_delay_sec * 2^(n-1)
ExpectedSleeps(n) == [i \in 1 .. n |-> retry_delay_sec * (2 ^ (i - 1))]

\* C1: a status that is neither 200 nor 429 ends the attempt loop: the
\* request that received it is the last request of the run, and the run
\* returns None.
C1_OtherStatusStops ==
    \A i \in 1 .. Len(calls) :
        StatusOf(i) \notin {HTTP_OK, RESOURCE_EXHAUSTED}
            => /\ i = Len(calls)
               /\ Returned => answer = None

\* C2 as stated: against a transport that always answers 429 the run sends
\* exactly max_retry_attempt + 1 requests, sleeps after all but the last
\* and returns None.
C2_Always429_Original ==
    (Returned /\ AllCalls429)
        => /\ Len(calls) = max_retry_attempt + 1
           /\ Len(sleeps) = max_retry_attempt
           /\ answer = None

\* C2 amended: against a transport that always answers 429 the run returns
\* None; if no deadline check ended the loop it has sent exactly
\* max_retry_attempt + 1 requests and slept after all but the last of them;
\* if a deadline check ended it, it has sent at most max_retry_attempt
\* requests, each followed by its sleep.
C2_Always429 ==
    (Returned /\ AllCalls429)
        => /\ answer = None
           /\ exit_by \in {"exhausted", "timeout"}
           /\ exit_by = "exhausted"
                => /\ Len(calls) = max_retry_attempt + 1
                   /\ Len(sleeps) = max_retry_attempt
           /\ exit_by = "timeout"
                => /\ Len(calls) <= max_retry_attempt
                   /\ Len(sleeps) = Len(calls)

C2_Witness ==
    /\ Returned /\ AllCalls429
    /\ exit_by = "exhausted"
    /\ max_retry_attempt = DEFAULT_MAX_RETRY_ATTEMPT
    /\ retry_delay_sec = DEFAULT_RETRY_DELAY_SEC
    /\ timeout_sec = DEFAULT_TIMEOUT_SEC
    /\ Len(calls) = 4
    /\ sleeps = <<5, 10, 20>>

\* C3 as stated: against a transport that answers 429 to the first n calls
\* (n < max_retry_attempt) and 200 to the next, the run returns an answer
\* after exactly n + 1 requests, with the sleeps retry_delay_sec * 2^i.
C3_RetryThenSuccess_Original ==
    Returned =>
        \A n \in 0 .. (max_retry_attempt - 1) :
            ConsistentWith(n)
                => /\ answer.some
                   /\ Len(calls) = n + 1
                   /\ sleeps = ExpectedSleeps(n)

\* C3 amended: against that transport, a run that no deadline check ends
\* sends exactly n + 1 requests, sleeps retry_delay_sec * 2^i between request
\* i and request i + 1, and what it returns is the answer of the 200; a run
\* that a deadline check ends returns None after at most n requests, each
\* followed by its sleep of retry_delay_sec * 2^i.
C3_RetryThenSuccess ==
    Ended =>
        \A n \in 0 .. (max_retry_attempt - 1) :
            ConsistentWith(n)
                => /\ exit_by # "timeout"
                     => /\ Len(calls) = n + 1
                        /\ StatusOf(n + 1) = HTTP_OK
                        /\ sleeps = ExpectedSleeps(n)
                        /\ Returned => answer.some /\ exit_by = "success"
                   /\ exit_by = "timeout"
                     => /\ Len(calls) <= n
                        /\ sleeps = ExpectedSleeps(Len(calls))
                        /\ answer = None

C3_Witness ==
    /\ Returned
    /\ ConsistentWith(2)
    /\ max_retry_attempt = 3
    /\ Len(calls) = 3
    /\ retry_delay_sec = DEFAULT_RETRY_DELAY_SEC
    /\ sleeps = <<5, 10>>
    /\ answer = Str("Hint A\nHint B")

\* C4: every request was sent after a deadline check that read an elapsed
\* time of at most timeout_sec; a check that reads more ends the loop, with
\* attempts left or not: from then on no request is sent, no sleep is made
\* and the result is None.
C4_HardDeadline ==
    /\ [](/\ \A i \in 1 .. Len(calls) : calls[i].checked_at <= timeout_sec
          /\ exit_by = "timeout"
               => /\ checked_at > timeout_sec
                  /\ pc \in {"return", "done"}
                  /\ answer = None)
    /\ [][exit_by = "timeout"
            => /\ calls' = calls
               /\ sleeps' = sleeps
               /\ answer' = None
               /\ exit_by' = "timeout"]_vars

C4_Witness ==
    /\ Returned
    /\ exit_by = "timeout"
    /\ attempt < max_retry_attempt
    /\ Len(calls) = 2
    /\ Len(sleeps) = 2
    /\ calls[2].checked_at <= timeout_sec

\* the fragments of the first candidate, each but the last followed by a
\* newline
RECURSIVE LinesOf(_, _)
LinesOf(parts, i) ==
    IF i > Len(parts) THEN ""
    ELSE parts[i].text \o (IF i < Len(parts) THEN "\n" ELSE "") \o LinesOf(parts, i + 1)

LastCall == calls[Len(calls)]

\* C5: a 200 ends the loop: it is the last request of the run and no sleep
\* follows it; the answer returned after it is the text fragments of the
\* first candidate's parts, in order, joined with newlines; and an answer
\* other than None is returned only when the last request received 200.
C5_SuccessStops ==
    /\ [](/\ \A i \in 1 .. Len(calls) : StatusOf(i) = HTTP_OK => i = Len(calls)
          /\ (Returned /\ calls # <<>> /\ LastCall.status = HTTP_OK)
               => answer = Str(LinesOf(response.body.candidates[1].parts, 1))
          /\ (Returned /\ answer.some)
               => calls # <<>> /\ LastCall.status = HTTP_OK)
    /\ [][(calls # <<>> /\ LastCall.status = HTTP_OK)
            => calls' = calls /\ sleeps' = sleeps]_vars

C5_Witness ==
    /\ Returned
    /\ Len(calls) = 2
    /\ LastCall.status = HTTP_OK
    /\ attempt < max_retry_attempt
    /\ elapsed < timeout_sec
    /\ answer = Str("Hint B\n\nHint A")

\* C6: the function always ends by returning: it never raises, and when the
\* loop ends by the deadline or with the attempts used up the result is None.
C6_NeverRaises ==
    /\ pc # "raised"
    /\ (Returned /\ exit_by \in {"timeout", "exhausted"}) => answer = None

-----------------------------------------------------------------------------
(* Python dicts: a dict is the sequence of its <<key, value>> pairs in      *)
(* insertion order, which is the order `for k in d` and json.loads keep    *)

dict_has(d, k) == \E i \in 1 .. Len(d) : d[i][1] = k
dict_get(d, k) == d[CHOOSE i \in 1 .. Len(d) : d[i][1] = k][2]

\* the values of a test record: a str, an int, or a dict of strings
StrVal(t) == [type |-> "str", str |-> t, dict |-> <<>>]
IntVal == [type |-> "int", str |-> "", dict |-> <<>>]
DictVal(d) == [type |-> "dict", str |-> "", dict |-> d]

-----------------------------------------------------------------------------
(* The pytest JSON reports collect_longrepr is given *)

MaxRecords == 2

Outcomes == {"passed", "failed", "error"}
PhaseNames == {"setup", "call"}

\* a phase that carries failure detail, and one that does not
WithDetail(k) == DictVal(<<<<"outcome", "failed">>, <<"longrepr", "E in " \o k>>>>)
NoDetail == DictVal(<<<<"duration", "0.1">>, <<"outcome", "passed">>>>)

PhaseItems == UNION { { <<k, WithDetail(k)>>, <<k, NoDetail>> } : k \in PhaseNames }

\* the phases of a record: no key twice, in any order
PhaseLists ==
    { <<>> } \cup { <<a>> : a \in PhaseItems }
      \cup { ab \in PhaseItems \X PhaseItems : ab[1][1] # ab[2][1] }

TestRecordOf(o, phases) ==
    << <<"nodeid", StrVal("test_add")>>, <<"lineno", IntVal>>,
       <<"outcome", StrVal(o)>> >> \o phases

TestRecords == { TestRecordOf(o, ph) : o \in Outcomes, ph \in PhaseLists }

RECURSIVE SeqsUpTo(_, _)
SeqsUpTo(S, n) ==
    IF n = 0 THEN { <<>> }
    ELSE LET shorter == SeqsUpTo(S, n - 1)
         IN  shorter \cup { Append(q, x) : q \in { t \in shorter : Len(t) = n - 1 }, x \in S }

TestRunReports == { [tests |-> t] : t \in SeqsUpTo(TestRecords, MaxRecords) }

-----------------------------------------------------------------------------
(* collect_longrepr: lines 183-191 *)

\* a filter that keeps the failed records only
NotPassed_failed_only(outcome) == outcome = "failed"

\* line 187: r['outcome'] != 'passed'
NotPassed(outcome) == outcome # "passed"

\* line 189: isinstance(r[k], dict) and 'longrepr' in r[k]
HasLongrepr(v) == v.type = "dict" /\ dict_has(v.dict, "longrepr")

\* line 190: r['outcome'] + ':' + k + ':' + r[k]['longrepr']
LongreprOf(r, k) ==
    dict_get(r, "outcome").str \o ":" \o k \o ":" \o dict_get(dict_get(r, k).dict, "longrepr")

\* lines 188-190: for k in r, from the j-th key on
RECURSIVE collect_keys(_, _, _)
collect_keys(r, j, acc) ==
    IF j > Len(r) THEN acc
    ELSE collect_keys(r, j + 1,
                      IF HasLongrepr(r[j][2]) THEN Append(acc, LongreprOf(r, r[j][1]))
                      ELSE acc)

\* lines 186-190: for r in data['tests'], from the i-th record on
RECURSIVE collect_tests(_, _, _)
collect_tests(tests, i, acc) ==
    IF i > Len(tests) THEN acc
    ELSE collect_tests(tests, i + 1,
                       IF NotPassed(dict_get(tests[i], "outcome").str)
                       THEN collect_keys(tests[i], 1, acc)
                       ELSE acc)

collect_longrepr(d) == collect_tests(d.tests, 1, <<>>)

\* the variables the call of collect_longrepr leaves alone
IdleRetry ==
    /\ retry_delay_sec = DEFAULT_RETRY_DELAY_SEC
    /\ max_retry_attempt = DEFAULT_MAX_RETRY_ATTEMPT
    /\ timeout_sec = DEFAULT_TIMEOUT_SEC
    /\ attempt = 0
    /\ elapsed = 0
    /\ checked_at = 0
    /\ response = NoResponse
    /\ answer = None
    /\ calls = <<>>
    /\ sleeps = <<>>
    /\ exit_by = "running"

IdlePrompt ==
    /\ report_paths = <<>>
    /\ student_files = <<>>
    /\ readme_file = [readable |-> FALSE, text |-> ""]
    /\ explanation_in = "English"
    /\ pytest_longrepr_list = <<>>
    /\ prompt_list = <<>>
    /\ prompt_str = ""
    /\ exception = ""

InitCollect ==
    /\ data \in TestRunReports
    /\ longrepr_list = <<>>
    /\ pc = "collect_longrepr"
    /\ IdleRetry
    /\ IdlePrompt
    /\ IdleExtra

\* the call collect_longrepr(data)
CollectLongrepr ==
    /\ pc = "collect_longrepr"
    /\ longrepr_list' = collect_longrepr(data)
    /\ pc' = "collected"
    /\ UNCHANGED <<data, prompt_vars, extra_vars>>
    /\ UNCHANGED <<retry_delay_sec, max_retry_attempt, timeout_sec, attempt,
                   elapsed, checked_at, response, answer, calls, sleeps, exit_by>>

NextCollect == CollectLongrepr

SpecCollect == InitCollect /\ [][NextCollect]_vars

-----------------------------------------------------------------------------
(* Properties of collect_longrepr *)

OutcomeAt(i) == dict_get(data.tests[i], "outcome").str

\* the (record, key) pairs of the report that call for an excerpt
FailurePairs ==
    { p \in (1 .. Len(data.tests)) \X (1 .. (3 + Cardinality(PhaseNames))) :
        /\ p[2] <= Len(data.tests[p[1]])
        /\ OutcomeAt(p[1]) # "passed"
        /\ data.tests[p[1]][p[2]][2].type = "dict"
        /\ \E n \in 1 .. Len(data.tests[p[1]][p[2]][2].dict) :
               data.tests[p[1]][p[2]][2].dict[n][1] = "longrepr" }

Before(p, q) == p[1] < q[1] \/ (p[1] = q[1] /\ p[2] < q[2])

\* the place of a pair among the pairs, in report order
RankOf(p) == 1 + Cardinality({ q \in FailurePairs : Before(q, p) })

DetailTextAt(p) ==
    LET d == data.tests[p[1]][p[2]][2].dict
    IN  d[CHOOSE n \in 1 .. Len(d) : d[n][1] = "longrepr"][2]

\* C7: collect_longrepr returns exactly one excerpt
\* "<outcome>:<phase-name>:<detail-text>" for each pair of a record that did
\* not pass and a phase of it that carries failure detail, in the order of
\* the records and, within a record, of its phases; a passed record gives
\* no excerpt whatever its phases carry, and a report with no tests gives
\* the empty list.
C7_ExtractFailures ==
    pc = "collected" =>
        /\ Len(longrepr_list) = Cardinality(FailurePairs)
        /\ \A p \in FailurePairs :
               longrepr_list[RankOf(p)] =
                   OutcomeAt(p[1]) \o ":" \o data.tests[p[1]][p[2]][1] \o ":" \o DetailTextAt(p)
        /\ data.tests = <<>> => longrepr_list = <<>>
        /\ (\A i \in 1 .. Len(data.tests) : OutcomeAt(i) = "passed") => longrepr_list = <<>>

C7_Witness ==
    /\ pc = "collected"
    /\ Len(data.tests) = 2
    /\ OutcomeAt(1) = "passed"
    /\ dict_has(data.tests[1], "call")
    /\ HasLongrepr(dict_get(data.tests[1], "call"))
    /\ OutcomeAt(2) = "error"
    /\ longrepr_list = <<"error:call:E in call", "error:setup:E in setup">>

-----------------------------------------------------------------------------
(* What a call gives: a value, or the exception it raises *)

Ok(v) == [raised |-> FALSE, exc |-> "", value |-> v]
RaiseStr(e) == [raised |-> TRUE, exc |-> e, value |-> ""]
RaiseList(e) == [raised |-> TRUE, exc |-> e, value |-> <<>>]

-----------------------------------------------------------------------------
(* The files get_prompt reads: the locale folder, the reports, the student *)
(* files and the instruction file                                          *)

MaxReports == 2
MaxStudentFiles == 2

LocaleKeys ==
    {"directive", "report_header", "report_footer", "instruction_start",
     "instruction_end", "homework_start", "homework_end"}

\* locale/<language>.json: English and Spanish carry the seven keys, Latin
\* lacks three of them, Greek is no JSON, and Esperanto has no file
Languages == {"English", "Spanish", "Latin", "Greek", "Esperanto"}

locale_file(language) ==
    CASE language = "English" ->
           [exists |-> TRUE, is_json |-> TRUE,
            json |-> [directive |-> "Please explain in English.",
                      report_header |-> "Error Message Start",
                      report_footer |-> "Error Message End",
                      instruction_start |-> "Assignment Instruction Start",
                      instruction_end |-> "Assignment Instruction End",
                      homework_start |-> "Homework Submission Code Start",
                      homework_end |-> "Homework Submission Code End"]]
      [] language = "Spanish" ->
           [exists |-> TRUE, is_json |-> TRUE,
            json |-> [directive |-> "Explique en espanol.",
                      report_header |-> "Inicio del mensaje de error",
                      report_footer |-> "Fin del mensaje de error",
                      instruction_start |-> "Inicio de las instrucciones",
                      instruction_end |-> "Fin de las instrucciones",
                      homework_start |-> "Inicio del codigo entregado",
                      homework_end |-> "Fin del codigo entregado"]]
      [] language = "Latin" ->
           [exists |-> TRUE, is_json |-> TRUE,
            json |-> [directive |-> "Explica Latine.",
                      instruction_start |-> "Initium mandatorum",
                      instruction_end |-> "Finis mandatorum",
                      homework_end |-> "Finis operis"]]
      [] language = "Greek" ->
           [exists |-> TRUE, is_json |-> FALSE, json |-> [directive |-> ""]]
      [] OTHER ->
           [exists |-> FALSE, is_json |-> FALSE, json |-> [directive |-> ""]]

Detail(text) == DictVal(<<<<"outcome", "failed">>, <<"longrepr", text>>>>)

ReportFile(tests) == [readable |-> TRUE, data |-> [tests |-> tests]]
UnreadableReport == [readable |-> FALSE, data |-> [tests |-> <<>>]]

SampleReports ==
    { ReportFile(<<>>),
      ReportFile(<<TestRecordOf("passed", <<<<"call", Detail("stale detail")>>>>)>>),
      ReportFile(<<TestRecordOf("failed", <<<<"call", Detail("AssertionError: 1 != 2")>>>>)>>),
      ReportFile(<<TestRecordOf("error", <<<<"setup", Detail("fixture broke")>>,
                                            <<"call", Detail("ZeroDivisionError")>>>>),
                   TestRecordOf("passed", <<<<"call", NoDetail>>>>)>>),
      ReportFile(<<TestRecordOf("failed", <<<<"call", NoDetail>>>>)>>),
      UnreadableReport }

SampleStudentFiles ==
    { [name |-> "a.py", readable |-> TRUE, text |-> "x=1"],
      [name |-> "b.py", readable |-> TRUE, text |-> "def add(a, b):\n    return a + b\n"],
      [name |-> "gone.py", readable |-> FALSE, text |-> ""] }

SampleReadmes ==
    { [readable |-> TRUE, text |-> "Add two numbers"],
      [readable |-> FALSE, text |-> ""] }

-----------------------------------------------------------------------------
(* load_locale and the strings read from it: lines 178-180, 194-207, 242-252 *)

\* lines 243-252: the asserts on the folder and the file, then json.loads
load_locale(explain_in) ==
    LET f == locale_file(explain_in)
    IN  IF ~f.exists THEN [raised |-> TRUE, exc |-> "AssertionError", value |-> f.json]
        ELSE IF ~f.is_json THEN [raised |-> TRUE, exc |-> "JSONDecodeError", value |-> f.json]
        ELSE [raised |-> FALSE, exc |-> "", value |-> f.json]

\* load_locale(explanation_in)[key]
locale_text(explain_in, key) ==
    LET loc == load_locale(explain_in)
    IN  IF loc.raised THEN RaiseStr(loc.exc)
        ELSE IF key \notin DOMAIN loc.value THEN RaiseStr("KeyError")
        ELSE Ok(loc.value[key])

\* lines 178-180
get_directive(language) ==
    LET t == locale_text(language, "directive")
    IN  IF t.raised THEN t ELSE Ok(t.value \o "\n")

\* lines 194-199
get_report_header(language) ==
    LET t == locale_text(language, "report_header")
    IN  IF t.raised THEN t ELSE Ok("## " \o t.value \o "\n")

\* lines 202-207
get_report_footer(language) ==
    LET t == locale_text(language, "report_footer")
    IN  IF t.raised THEN t ELSE Ok("## " \o t.value \o "\n")

-----------------------------------------------------------------------------
(* collect_longrepr_from_multiple_reports: lines 159-175 *)

\* a header and a footer added whatever was collected
HasQuestions_always(questions) == TRUE

\* line 171: if questions
HasQuestions(questions) == questions # <<>>

\* lines 163-169: the loop over the report files, from the i-th on;
\* read_text raises on a file that cannot be read
RECURSIVE collect_reports(_, _, _)
collect_reports(paths, i, questions) ==
    IF i > Len(paths) THEN Ok(questions)
    ELSE IF ~paths[i].readable THEN RaiseList("FileNotFoundError")
    ELSE collect_reports(paths, i + 1, questions \o collect_longrepr(paths[i].data))

collect_longrepr_from_multiple_reports(paths, language) ==
    LET collected == collect_reports(paths, 1, <<>>)
    IN  IF collected.raised THEN collected
        ELSE IF ~HasQuestions(collected.value) THEN collected
        ELSE LET header == get_report_header(language)
                 footer == get_report_footer(language)
             IN  IF header.raised THEN RaiseList(header.exc)
                 ELSE IF footer.raised THEN RaiseList(footer.exc)
                 ELSE Ok(<<header.value>> \o collected.value \o <<footer.value>>)

-----------------------------------------------------------------------------
(* The blocks of the prompt: lines 128-137, 210-239 *)

\* the directive asked for whether or not a test failed
get_initial_instruction_always_directive(questions, language) ==
    LET d == get_directive(language)
    IN  IF d.raised THEN d
        ELSE Ok(d.value \o "\n" \o
                "Please generate comments mutually exclusive and collectively exhaustive for the following failed test cases.")

\* lines 128-137
get_initial_instruction(questions, language) ==
    IF questions # <<>>
    THEN LET d == get_directive(language)
         IN  IF d.raised THEN d
             ELSE Ok(d.value \o "\n" \o
                     "Please generate comments mutually exclusive and collectively exhaustive for the following failed test cases.")
    ELSE Ok("In " \o language \o ", please comment on the student code given the assignment instruction.")

\* lines 237-239
assignment_instruction(readme) ==
    IF readme.readable THEN Ok(readme.text) ELSE RaiseStr("FileNotFoundError")

\* lines 210-216
get_instruction_block(readme, language) ==
    LET start == locale_text(language, "instruction_start")
        text == assignment_instruction(readme)
        end == locale_text(language, "instruction_end")
    IN  IF start.raised THEN start
        ELSE IF text.raised THEN text
        ELSE IF end.raised THEN end
        ELSE Ok("## " \o start.value \o "\n" \o text.value \o "\n" \o
                "## " \o end.value \o "\n")

\* line 234: one file between its begin and end comments
CodeOfFile(f) ==
    "# begin : " \o f.name \o " ======\n" \o f.text \o "\n# end : " \o f.name \o " ======\n"

\* lines 232-234
assignment_code(files) ==
    IF \E i \in 1 .. Len(files) : ~files[i].readable
    THEN RaiseStr("FileNotFoundError")
    ELSE Ok(str_join("\n\n", [i \in 1 .. Len(files) |-> CodeOfFile(files[i])]))

\* line 225: the string has no f prefix, so it is taken as written
HomeworkStartLine == "## {load_locale(explanation_in)['homework_start']}\n"

\* lines 219-229
get_student_code_block(files, language) ==
    LET code == assignment_code(files)
        end == locale_text(language, "homework_end")
    IN  IF code.raised THEN code
        ELSE IF end.raised THEN end
        ELSE Ok("\n" \o "\n" \o
                "##### Start mutable code block\n" \o
                HomeworkStartLine \o
                code.value \o "\n" \o
                "## " \o end.value \o "\n" \o
                "##### End mutable code block\n")

-----------------------------------------------------------------------------
(* get_prompt: lines 120-156 *)

\* the code block put before the instruction block
PromptList_swapped(initial, instruction, code, longreprs) ==
    <<initial, code, instruction>> \o longreprs

\* lines 140-151
PromptList(initial, instruction, code, longreprs) ==
    <<initial, instruction, code>> \o longreprs

InitPrompt ==
    /\ report_paths \in SeqsUpTo(SampleReports, MaxReports)
    /\ student_files \in SeqsUpTo(SampleStudentFiles, MaxStudentFiles)
    /\ readme_file \in SampleReadmes
    /\ explanation_in \in Languages
    /\ pytest_longrepr_list = <<>>
    /\ prompt_list = <<>>
    /\ prompt_str = ""
    /\ exception = ""
    /\ pc = "get_prompt"
    /\ data = [tests |-> <<>>]
    /\ longrepr_list = <<>>
    /\ IdleRetry
    /\ IdleExtra

PromptInputs == <<report_paths, student_files, readme_file, explanation_in>>

\* line 126
CollectReports ==
    /\ pc = "get_prompt"
    /\ LET got == collect_longrepr_from_multiple_reports(report_paths, explanation_in)
       IN  IF got.raised
           THEN /\ pc' = "raised"
                /\ exception' = got.exc
                /\ pytest_longrepr_list' = pytest_longrepr_list
           ELSE /\ pc' = "prompt_list"
                /\ exception' = exception
                /\ pytest_longrepr_list' = got.value
    /\ UNCHANGED <<PromptInputs, prompt_list, prompt_str, collect_vars, extra_vars>>
    /\ UNCHANGED <<retry_delay_sec, max_retry_attempt, timeout_sec, attempt,
                   elapsed, checked_at, response, answer, calls, sleeps, exit_by>>

\* lines 140-151
BuildPromptList ==
    /\ pc = "prompt_list"
    /\ LET initial == get_initial_instruction(pytest_longrepr_list, explanation_in)
           instruction == get_instruction_block(readme_file, explanation_in)
           code == get_student_code_block(student_files, explanation_in)
       IN  IF initial.raised \/ instruction.raised \/ code.raised
           THEN /\ pc' = "raised"
                /\ exception' = IF initial.raised THEN initial.exc
                                ELSE IF instruction.raised THEN instruction.exc
                                ELSE code.exc
                /\ prompt_list' = prompt_list
           ELSE /\ pc' = "join"
                /\ exception' = exception
                /\ prompt_list' = PromptList(initial.value, instruction.value,
                                             code.value, pytest_longrepr_list)
    /\ UNCHANGED <<PromptInputs, pytest_longrepr_list, prompt_str, collect_vars, extra_vars>>
    /\ UNCHANGED <<retry_delay_sec, max_retry_attempt, timeout_sec, attempt,
                   elapsed, checked_at, response, answer, calls, sleeps, exit_by>>

\* lines 154-156
JoinPrompt ==
    /\ pc = "join"
    /\ prompt_str' = str_join("\n\n", prompt_list)
    /\ pc' = "returned"
    /\ UNCHANGED <<PromptInputs, pytest_longrepr_list, prompt_list, exception,
                   collect_vars, extra_vars>>
    /\ UNCHANGED <<retry_delay_sec, max_retry_attempt, timeout_sec, attempt,
                   elapsed, checked_at, response, answer, calls, sleeps, exit_by>>

NextPrompt ==
    \/ CollectReports
    \/ BuildPromptList
    \/ JoinPrompt

SpecPrompt == InitPrompt /\ [][NextPrompt]_vars

-----------------------------------------------------------------------------
(* Properties of collect_longrepr_from_multiple_reports and get_prompt *)

CollectReturned == pc \in {"prompt_list", "join", "returned"}

\* the excerpts of the reports from the i-th on, report after report
RECURSIVE ExcerptsFrom(_)
ExcerptsFrom(i) ==
    IF i > Len(report_paths) THEN <<>>
    ELSE collect_longrepr(report_paths[i].data) \o ExcerptsFrom(i + 1)

LocaleJson == locale_file(explanation_in).json
HeaderLine == "## " \o LocaleJson["report_header"] \o "\n"
FooterLine == "## " \o LocaleJson["report_footer"] \o "\n"

\* C8: what collect_longrepr_from_multiple_reports returns is the excerpts
\* of the reports concatenated in report order, with the localized header
\* before and the localized footer after them if and only if there is at
\* least one excerpt: no reports, or reports without a failing record, give
\* the empty list.
C8_ExtractAllFailures ==
    CollectReturned =>
        /\ ExcerptsFrom(1) = <<>> => pytest_longrepr_list = <<>>
        /\ ExcerptsFrom(1) # <<>>
             => pytest_longrepr_list = <<HeaderLine>> \o ExcerptsFrom(1) \o <<FooterLine>>

C8_Witness ==
    /\ CollectReturned
    /\ Len(report_paths) = 2
    /\ pytest_longrepr_list =
         << "## Error Message Start\n",
            "error:setup:fixture broke", "error:call:ZeroDivisionError",
            "failed:call:AssertionError: 1 != 2",
            "## Error Message End\n" >>

\* each string of the list after a blank-line separator
RECURSIVE AfterBlankLines(_)
AfterBlankLines(strs) ==
    IF strs = <<>> THEN "" ELSE "\n\n" \o Head(strs) \o AfterBlankLines(Tail(strs))

\* the failure block as text: nothing without excerpts; else the header,
\* the excerpts and the footer, each after a blank-line separator
FailureBlockText ==
    IF ExcerptsFrom(1) = <<>> THEN ""
    ELSE AfterBlankLines(<<HeaderLine>> \o ExcerptsFrom(1) \o <<FooterLine>>)

\* C9: the prompt get_prompt returns is the opening instruction, the
\* instruction block, the student-code block and then the failure block
\* (header, excerpts in order, footer), in this order and joined by blank
\* lines; the failure block is there if and only if there is an excerpt.
C9_PromptOrder ==
    pc = "returned" =>
        /\ prompt_str =
             get_initial_instruction(ExcerptsFrom(1), explanation_in).value \o "\n\n" \o
             get_instruction_block(readme_file, explanation_in).value \o "\n\n" \o
             get_student_code_block(student_files, explanation_in).value \o
             FailureBlockText
        /\ Len(prompt_list) =
             IF ExcerptsFrom(1) = <<>> THEN 3 ELSE 3 + Len(ExcerptsFrom(1)) + 2

C9_Witness ==
    /\ pc = "returned"
    /\ explanation_in = "Spanish"
    /\ Len(student_files) = 2
    /\ Len(prompt_list) = 6
    /\ prompt_list[4] = "## Inicio del mensaje de error\n"
    /\ prompt_list[5] = "failed:call:AssertionError: 1 != 2"
    /\ prompt_list[6] = "## Fin del mensaje de error\n"

\* the files between their begin and end comments, a blank line between
\* two files
RECURSIVE FilesText(_, _)
FilesText(files, i) ==
    IF i > Len(files) THEN ""
    ELSE "# begin : " \o files[i].name \o " ======\n" \o
         files[i].text \o
         "\n# end : " \o files[i].name \o " ======\n" \o
         (IF i < Len(files) THEN "\n\n" ELSE "") \o
         FilesText(files, i + 1)

\* C10: the student-code block is the marker that opens the mutable code
\* block, the locale's homework_start string as the start marker, every
\* student file in the given order between a begin comment and an end
\* comment naming it, a blank line between files, the locale's
\* homework_end string as the end marker, and the closing marker.
C10_StudentCodeBlock ==
    (pc \in {"join", "returned"} /\ "homework_start" \in DOMAIN LocaleJson)
        => prompt_list[3] =
             "\n\n" \o
             "##### Start mutable code block\n" \o
             "## " \o LocaleJson["homework_start"] \o "\n" \o
             FilesText(student_files, 1) \o "\n" \o
             "## " \o LocaleJson["homework_end"] \o "\n" \o
             "##### End mutable code block\n"

-----------------------------------------------------------------------------
(* load_locale under functools.lru_cache(maxsize=None): lines 242-252 *)

MaxLoads == 3

\* the cache looked up by the language label
CacheHit(cache, language) == language \in DOMAIN cache

\* how often the body ran for a language
LoadsOf(language) ==
    IF language \in DOMAIN locale_loads THEN locale_loads[language] ELSE 0

\* a cache of one entry: storing a mapping drops the others
CacheStore_single(cache, language, instance) == [l \in {language} |-> instance]

\* maxsize=None: an entry is added and none is ever dropped
CacheStore(cache, language, instance) ==
    [l \in DOMAIN cache \cup {language} |->
        IF l = language THEN instance ELSE cache[l]]

\* a call load_locale(language): the cached mapping if there is one, else
\* the body of the function, whose result is cached unless it raises
LoadLocale(language) ==
    /\ pc = "locale"
    /\ IF CacheHit(locale_cache, language)
       THEN /\ loaded' = [language |-> language, hit |-> TRUE, raised |-> FALSE,
                          exc |-> "", instance |-> locale_cache[language],
                          keys |-> DOMAIN load_locale(language).value]
            /\ UNCHANGED <<locale_cache, locale_loads>>
       ELSE /\ LoadsOf(language) < MaxLoads
            /\ locale_loads' = [l \in DOMAIN locale_loads \cup {language} |->
                                   IF l = language THEN LoadsOf(language) + 1
                                   ELSE locale_loads[l]]
            /\ LET got == load_locale(language)
               IN  IF got.raised
                   THEN /\ loaded' = [language |-> language, hit |-> FALSE,
                                      raised |-> TRUE, exc |-> got.exc,
                                      instance |-> 0, keys |-> {}]
                        /\ locale_cache' = locale_cache
                   ELSE /\ loaded' = [language |-> language, hit |-> FALSE,
                                      raised |-> FALSE, exc |-> "",
                                      instance |-> LoadsOf(language) + 1,
                                      keys |-> DOMAIN got.value]
                        /\ locale_cache' = CacheStore(locale_cache, language,
                                                      LoadsOf(language) + 1)
    /\ UNCHANGED <<retry_vars, collect_vars, prompt_vars, split_vars, code_vars>>

InitLocale ==
    /\ IdleExtra
    /\ pc = "locale"
    /\ IdleRetry
    /\ data = [tests |-> <<>>]
    /\ longrepr_list = <<>>
    /\ IdlePrompt

NextLocale == \E language \in Languages : LoadLocale(language)

SpecLocale == InitLocale /\ [][NextLocale]_vars

-----------------------------------------------------------------------------
(* Properties of load_locale *)

\* C11: load_locale fails, and caches nothing, when the language has no
\* resource, when the resource is no JSON, or when one of the seven keys is
\* missing from it; a mapping it returns resolves all seven keys.
C11_LoadFailsFast ==
    /\ loaded.raised => ~CacheHit(locale_cache, loaded.language)
    /\ (loaded.language # "" /\ ~locale_file(loaded.language).exists) => loaded.raised
    /\ (loaded.language # "" /\ ~locale_file(loaded.language).is_json) => loaded.raised
    /\ (loaded.language # "" /\ ~loaded.raised) => LocaleKeys \subseteq loaded.keys

\* C12: once load_locale(L) has returned a mapping, the cache keeps that
\* very mapping for L: every later call for L returns the same instance and
\* the body of the function does not run for L again, whatever other
\* languages are loaded in between.
C12_LocaleCached ==
    [][\A l \in DOMAIN locale_cache :
          /\ l \in DOMAIN locale_cache'
          /\ locale_cache'[l] = locale_cache[l]
          /\ locale_loads'[l] = locale_loads[l]
          /\ loaded'.language = l
               => /\ ~loaded'.raised
                  /\ loaded'.hit
                  /\ loaded'.instance = locale_cache[l]]_vars

C12_Witness ==
    /\ loaded.language = "English"
    /\ loaded.hit
    /\ loaded.instance = 1
    /\ locale_loads["English"] = 1
    /\ DOMAIN locale_cache = {"English", "Spanish", "Latin"}
    /\ "Greek" \in DOMAIN locale_loads
    /\ locale_loads["Greek"] = 2

-----------------------------------------------------------------------------
(* gemini_qna: lines 85-117, get_prompt and then ask_gemini *)

MaxQnaReports == 1
MaxQnaFiles == 1

\* gemini_qna is entered with its arguments; ask_gemini will run with the
\* defaults of its keyword arguments (line 115 passes none of them)
InitQna ==
    /\ report_paths \in SeqsUpTo(SampleReports, MaxQnaReports)
    /\ student_files \in SeqsUpTo(SampleStudentFiles, MaxQnaFiles)
    /\ readme_file \in SampleReadmes
    /\ explanation_in \in Languages
    /\ pytest_longrepr_list = <<>>
    /\ prompt_list = <<>>
    /\ prompt_str = ""
    /\ exception = ""
    /\ pc = "get_prompt"
    /\ data = [tests |-> <<>>]
    /\ longrepr_list = <<>>
    /\ IdleRetry
    /\ IdleExtra

\* line 115: ask_gemini(consolidated_question, api_key) once get_prompt
\* has returned
CallAskGemini ==
    /\ pc = "returned"
    /\ pc' = "for"
    /\ UNCHANGED <<PromptInputs, pytest_longrepr_list, prompt_list, prompt_str,
                   exception, collect_vars, extra_vars>>
    /\ UNCHANGED <<retry_delay_sec, max_retry_attempt, timeout_sec, attempt,
                   elapsed, checked_at, response, answer, calls, sleeps, exit_by>>

NextQna ==
    \/ CollectReports
    \/ BuildPromptList
    \/ JoinPrompt
    \/ CallAskGemini
    \/ ForAttempt
    \/ CheckTimeout
    \/ Post
    \/ HandleSuccess
    \/ HandleRateLimit
    \/ HandleOther
    \/ Return

SpecQna == InitQna /\ [][NextQna]_vars

-----------------------------------------------------------------------------
(* Properties of gemini_qna *)

\* the locale keys the prompt of these inputs is specified to carry
PromptNeeds ==
    {"instruction_start", "instruction_end", "homework_start", "homework_end"}
    \cup (IF ExcerptsFrom(1) # <<>>
          THEN {"directive", "report_header", "report_footer"} ELSE {})

LocaleError ==
    \/ ~locale_file(explanation_in).exists
    \/ ~locale_file(explanation_in).is_json
    \/ ~(PromptNeeds \subseteq DOMAIN LocaleJson)

InputError ==
    \/ \E i \in 1 .. Len(report_paths) : ~report_paths[i].readable
    \/ \E i \in 1 .. Len(student_files) : ~student_files[i].readable
    \/ ~readme_file.readable

\* C13: when the locale resource of the language is missing, is no JSON or
\* lacks a key the prompt needs, or a report, a student file or the
\* instructions file cannot be read, gemini_qna sends no request; a request
\* is sent only once the prompt has been assembled.
C13_ErrorsAbortBeforeRequest ==
    /\ (LocaleError \/ InputError) => calls = <<>>
    /\ calls # <<>> => /\ prompt_list # <<>>
                       /\ prompt_str = str_join("\n\n", prompt_list)

-----------------------------------------------------------------------------
(* The prompt as lines, and the prompt split again on its markers: the     *)
(* blocks of lines 210-234 read back                                        *)

MaxSplitFiles == 2

\* texts given by their lines: text = "\n".join(lines)
FileLineSeqs ==
    { <<"x=1">>,
      <<"y=2", "">>,
      <<"x=1", "# end : a.py ======", "", "", "# begin : a.py ======", "y=2", "">> }

ReadmeLineSeqs ==
    { <<"Add two numbers">>,
      <<"Task", "", "Add two numbers", "">>,
      <<"Part 1", "## Assignment Instruction End", "Part 2">> }

SplitNames == {"a.py", "b.py"}

SplitFiles ==
    { [name |-> n, readable |-> TRUE, text |-> str_join("\n", ls)] :
        n \in SplitNames, ls \in FileLineSeqs }

SplitReadmes ==
    { [readable |-> TRUE, text |-> str_join("\n", ls)] : ls \in ReadmeLineSeqs }

\* text.split("\n") of one of the texts above
split_lines(text) ==
    CHOOSE ls \in FileLineSeqs \cup ReadmeLineSeqs : str_join("\n", ls) = text

\* a + b of two strings given by their lines: the last line of a and the
\* first line of b become one line
Lcat(a, b) == SubSeq(a, 1, Len(a) - 1) \o <<a[Len(a)] \o b[1]>> \o Tail(b)

\* the concatenation of several strings, each given by its lines
RECURSIVE LcatAll(_)
LcatAll(parts) ==
    IF Len(parts) = 1 THEN parts[1] ELSE Lcat(parts[1], LcatAll(Tail(parts)))

\* sep.join(parts) of strings given by their lines
RECURSIVE Ljoin(_, _)
Ljoin(sep, parts) ==
    IF parts = <<>> THEN <<"">>
    ELSE IF Len(parts) = 1 THEN parts[1]
    ELSE LcatAll(<<parts[1], sep, Ljoin(sep, Tail(parts))>>)

BeginComment(name) == "# begin : " \o name \o " ======"
EndComment(name) == "# end : " \o name \o " ======"

\* the end comment written without the name of the file
CodeOfFileLines_anonymous_end(f) ==
    LcatAll(<< <<BeginComment(f.name), "">>, split_lines(f.text),
               <<"", "# end ======", "">> >>)

\* line 234, the f-string of one file: its lines
CodeOfFileLines(f) ==
    LcatAll(<< <<BeginComment(f.name), "">>, split_lines(f.text),
               <<"", EndComment(f.name), "">> >>)

\* lines 232-234: '\n\n'.join(...)
assignment_code_lines(files) ==
    Ljoin(<<"", "", "">>, [i \in 1 .. Len(files) |-> CodeOfFileLines(files[i])])

\* lines 219-229
student_code_block_lines(files, language) ==
    LcatAll(<< <<"", "", "##### Start mutable code block", "">>,
               <<"## {load_locale(explanation_in)['homework_start']}", "">>,
               assignment_code_lines(files),
               <<"", "">>,
               <<"## " \o locale_text(language, "homework_end").value, "">>,
               <<"##### End mutable code block", "">> >>)

\* lines 210-216
instruction_block_lines(readme, language) ==
    LcatAll(<< <<"## " \o locale_text(language, "instruction_start").value, "">>,
               split_lines(readme.text),
               <<"", "## " \o locale_text(language, "instruction_end").value, "">> >>)

\* lines 140-154 without failure excerpts: the three blocks joined by "\n\n"
PromptLines ==
    Ljoin(<<"", "", "">>,
          << <<get_initial_instruction(<<>>, explanation_in).value>>,
             instruction_block_lines(readme_file, explanation_in),
             student_code_block_lines(student_files, explanation_in) >>)

\* the first index from `from` on at which the line stands, 0 if nowhere
FirstAt(lines, from, line) ==
    IF \E i \in from .. Len(lines) : lines[i] = line
    THEN CHOOSE i \in from .. Len(lines) :
            /\ lines[i] = line
            /\ \A j \in from .. (i - 1) : lines[j] # line
    ELSE 0

IsBegin(line) == \E n \in SplitNames : line = BeginComment(n)
NameOfBegin(line) == CHOOSE n \in SplitNames : line = BeginComment(n)

\* the files read back from position p on: a begin comment, the content up
\* to the first end comment of that name, and after a blank line the next
RECURSIVE FilesFrom(_, _)
FilesFrom(lines, p) ==
    IF p > Len(lines) \/ p = 0 THEN <<>>
    ELSE IF ~IsBegin(lines[p]) THEN <<>>
    ELSE LET n == NameOfBegin(lines[p])
             q == FirstAt(lines, p + 1, EndComment(n))
         IN  IF q = 0 THEN <<>>
             ELSE <<[name |-> n, text |-> str_join("\n", SubSeq(lines, p + 1, q - 1))]>>
                  \o (IF q + 3 <= Len(lines) /\ lines[q + 1] = "" /\ lines[q + 2] = ""
                      THEN FilesFrom(lines, q + 3) ELSE <<>>)

\* the prompt split on the literal markers of its blocks
SplitOnMarkers(lines, language) ==
    LET i1 == FirstAt(lines, 1, "## " \o locale_text(language, "instruction_start").value)
        i2 == FirstAt(lines, i1 + 1, "## " \o locale_text(language, "instruction_end").value)
        m == FirstAt(lines, i2 + 1, "##### Start mutable code block")
    IN  [instructions |-> str_join("\n", SubSeq(lines, i1 + 1, i2 - 1)),
         files |-> IF m = 0 THEN <<>> ELSE FilesFrom(lines, m + 2)]

InitRoundTrip ==
    /\ report_paths = <<>>
    /\ student_files \in SeqsUpTo(SplitFiles, MaxSplitFiles)
    /\ readme_file \in SplitReadmes
    /\ explanation_in \in {"English", "Spanish"}
    /\ pytest_longrepr_list = <<>>
    /\ prompt_list = <<>>
    /\ prompt_str = ""
    /\ exception = ""
    /\ pc = "get_prompt"
    /\ data = [tests |-> <<>>]
    /\ longrepr_list = <<>>
    /\ IdleRetry
    /\ IdleExtra

\* the prompt get_prompt returned is cut into lines and split on the markers
Resplit ==
    /\ pc = "returned"
    /\ pc' = "resplit"
    /\ prompt_lines' = PromptLines
    /\ recovered' = SplitOnMarkers(PromptLines, explanation_in)
    /\ UNCHANGED <<PromptInputs, pytest_longrepr_list, prompt_list, prompt_str,
                   exception, collect_vars, locale_vars, code_vars>>
    /\ UNCHANGED <<retry_delay_sec, max_retry_attempt, timeout_sec, attempt,
                   elapsed, checked_at, response, answer, calls, sleeps, exit_by>>

NextRoundTrip ==
    \/ CollectReports
    \/ BuildPromptList
    \/ JoinPrompt
    \/ Resplit

SpecRoundTrip == InitRoundTrip /\ [][NextRoundTrip]_vars

-----------------------------------------------------------------------------
(* Properties of the split prompt *)

Resplitted == pc = "resplit"

\* the names and the texts of the files passed to get_prompt, in order
GivenFiles ==
    [i \in 1 .. Len(student_files) |->
        [name |-> student_files[i].name, text |-> student_files[i].text]]

\* no line of the instructions is the end marker of the instruction block,
\* and no line of a file is the end comment of that file
MarkerFree ==
    /\ \A i \in 1 .. Len(split_lines(readme_file.text)) :
          split_lines(readme_file.text)[i]
            # "## " \o locale_text(explanation_in, "instruction_end").value
    /\ \A k \in 1 .. Len(student_files) :
          \A i \in 1 .. Len(split_lines(student_files[k].text)) :
             split_lines(student_files[k].text)[i] # EndComment(student_files[k].name)

\* C14 as stated: for every instructions text and every list of files, the
\* prompt split on its markers gives back the instructions text and, file
\* by file in order, the name and the content of each file.
C14_RoundTrip_Original ==
    Resplitted => /\ recovered.instructions = readme_file.text
                  /\ recovered.files = GivenFiles

\* C14: the lines of the prompt are those of the string get_prompt returned,
\* and when no line of the instructions is the instruction end marker and no
\* line of a file is the end comment of that file, the prompt split on its
\* markers gives back the instructions text and, file by file in order, the
\* name and the content of each file.
C14_RoundTrip ==
    Resplitted =>
        /\ str_join("\n", prompt_lines) = prompt_str
        /\ MarkerFree => /\ recovered.instructions = readme_file.text
                         /\ recovered.files = GivenFiles

C14_Witness ==
    /\ Resplitted
    /\ MarkerFree
    /\ Len(student_files) = 2
    /\ student_files[1].name = "b.py"
    /\ student_files[2].name = "a.py"
    /\ student_files[1].text = "y=2\n"
    /\ readme_file.text = "Task\n\nAdd two numbers\n"
    /\ recovered.files = GivenFiles
    /\ recovered.instructions = readme_file.text

-----------------------------------------------------------------------------
(* The opening of the prompt *)

PromptBuilt == pc \in {"join", "returned"}

\* C15: the prompt opens with the localized directive followed by the
\* instruction to comment, mutually exclusive and collectively exhaustive,
\* on the failed test cases if and only if there is a failure excerpt;
\* otherwise it opens with the instruction to comment on the student code
\* given the assignment instruction, without the directive.
C15_OpeningLine ==
    PromptBuilt =>
        /\ ExcerptsFrom(1) # <<>> =>
              prompt_list[1] =
                 LocaleJson["directive"] \o "\n\n" \o
                 "Please generate comments mutually exclusive and collectively exhaustive for the following failed test cases."
        /\ ExcerptsFrom(1) = <<>> =>
              prompt_list[1] =
                 "In " \o explanation_in \o
                 ", please comment on the student code given the assignment instruction."
        /\ pc = "returned" =>
              prompt_str = str_join("\n\n", <<prompt_list[1]>> \o Tail(prompt_list))

C15_Witness ==
    /\ pc = "returned"
    /\ explanation_in = "Spanish"
    /\ ExcerptsFrom(1) # <<>>
    /\ prompt_list[1] =
          "Explique en espanol.\n\nPlease generate comments mutually exclusive and collectively exhaustive for the following failed test cases."

-----------------------------------------------------------------------------
(* The states of the retry loop *)

Attempting == exit_by = "running" /\ pc \in {"for", "check", "post", "handle"}
Succeeded == exit_by = "success"
Exhausted == exit_by = "exhausted"
DeadlinePassed == exit_by = "timeout"
FailedPermanently ==
    \E i \in 1 .. Len(calls) : StatusOf(i) \notin {HTTP_OK, RESOURCE_EXHAUSTED}

\* C16: the loop starts attempting; a backoff sleep is made only while
\* attempting, after a 429 on an attempt whose index is below
\* max_retry_attempt, and is followed by attempting; once the loop has
\* succeeded, is exhausted, has passed its deadline or has failed
\* permanently (a status other than 200 and 429), no request is sent and no
\* sleep is made.
C16_StateMachine ==
    /\ Attempting /\ calls = <<>> /\ sleeps = <<>>
    /\ [][/\ sleeps' # sleeps
               => /\ Attempting
                  /\ pc = "handle"
                  /\ response.status = RESOURCE_EXHAUSTED
                  /\ attempt < max_retry_attempt
                  /\ pc' = "for"
          /\ (Succeeded \/ Exhausted \/ DeadlinePassed \/ FailedPermanently)
               => /\ calls' = calls
                  /\ sleeps' = sleeps]_vars

-----------------------------------------------------------------------------
(* Termination of the retry loop *)

\* C17: whatever statuses the transport answers and whatever the
\* configuration, the call of ask_gemini ends, and at every moment it has
\* sent at most max_retry_attempt + 1 requests, at most one per attempt
\* 0..max_retry_attempt.
C17_Terminates ==
    /\ <>Ended
    /\ [](/\ Len(calls) <= max_retry_attempt + 1
          /\ \A i \in 1 .. Len(calls) :
                /\ calls[i].attempt \in 0 .. max_retry_attempt
                /\ \A j \in 1 .. Len(calls) : i < j => calls[i].attempt < calls[j].attempt)

C17_Witness ==
    /\ Returned
    /\ max_retry_attempt = 3
    /\ Len(calls) = max_retry_attempt + 1
    /\ StatusOf(1) = 500
    /\ StatusOf(2) = RESOURCE_EXHAUSTED
    /\ StatusOf(4) = 500
    /\ exit_by = "exhausted"

-----------------------------------------------------------------------------
(* The backoff sleeps and the deadline *)

RECURSIVE SumSeq(_)
SumSeq(q) == IF q = <<>> THEN 0 ELSE Head(q) + SumSeq(Tail(q))

AllButLast(q) == SubSeq(q, 1, Len(q) - 1)

\* C18 as stated: in every run the backoff sleeps add up to at most
\* timeout_sec: no sleep carries the elapsed time past timeout_sec.
C18_BackoffWithinTimeout_Original ==
    /\ SumSeq(sleeps) <= timeout_sec
    /\ sleeps # <<>> => elapsed <= timeout_sec

\* C18: the deadline bounds the backoff at the check before each attempt
\* only.  Every sleep follows a request whose deadline check read at most
\* timeout_sec, so the sleeps before the last add up to at most timeout_sec;
\* the last sleep is made in full, retry_delay_sec * 2^attempt, and may carry
\* the elapsed time past timeout_sec, and then no request follows it.
C18_BackoffBounded ==
    sleeps # <<>> =>
        /\ SumSeq(AllButLast(sleeps)) <= timeout_sec
        /\ SumSeq(sleeps) <= timeout_sec + sleeps[Len(sleeps)]
        /\ \E i \in 1 .. Len(calls) :
              /\ calls[i].status = RESOURCE_EXHAUSTED
              /\ calls[i].checked_at <= timeout_sec
              /\ calls[i].checked_at >= SumSeq(AllButLast(sleeps))
              /\ sleeps[Len(sleeps)] = retry_delay_sec * (2 ^ calls[i].attempt)
              /\ SumSeq(sleeps) > timeout_sec => i = Len(calls)

C18_Witness ==
    /\ Returned
    /\ exit_by = "timeout"
    /\ Len(sleeps) = 3
    /\ SumSeq(sleeps) > timeout_sec
    /\ SumSeq(AllButLast(sleeps)) = timeout_sec
    /\ timeout_sec = 3

-----------------------------------------------------------------------------
(* assignment_code under functools.lru_cache: lines 232-234.  The cache is *)
(* the list of its entries, least recently used first; the entries of      *)
(* tuples that are passed once and never again are counted, not listed.    *)

\* @functools.lru_cache without arguments: maxsize = 128
LRU_MAXSIZE == 128

CodeFileA == [name |-> "a.py", readable |-> TRUE, text |-> "x=1"]
CodeFileB == [name |-> "b.py", readable |-> TRUE, text |-> "def add(a, b):\n    return a + b\n"]

\* ordered tuples of paths: the same set in two orders, and a subset
CodeTuples == { <<CodeFileA, CodeFileB>>, <<CodeFileB, CodeFileA>>, <<CodeFileA>> }

\* a tuple of paths passed for the first time, and never again
FreshTuple == <<[name |-> "other.py", readable |-> TRUE, text |-> "pass"]>>

\* a cache that forgets the order of the paths
CacheKey_unordered(files) == { files[i] : i \in 1 .. Len(files) }

\* the key of an entry: the positional argument, the tuple itself
CacheKey(files) == files

\* an entry of a listed tuple, and the entries of n tuples passed once
Entry(files, text) == [listed |-> TRUE, key |-> files, text |-> text, run |-> 1]
OnceEntries(n) == [listed |-> FALSE, key |-> <<>>, text |-> "", run |-> n]

RECURSIVE CacheSize(_)
CacheSize(cache) ==
    IF cache = <<>> THEN 0 ELSE Head(cache).run + CacheSize(Tail(cache))

\* the position of the entry of the tuple, 0 if it has none
IndexOf(cache, files) ==
    IF \E i \in 1 .. Len(cache) :
          cache[i].listed /\ CacheKey(cache[i].key) = CacheKey(files)
    THEN CHOOSE i \in 1 .. Len(cache) :
            cache[i].listed /\ CacheKey(cache[i].key) = CacheKey(files)
    ELSE 0

\* the list without its i-th item
Unlink(cache, i) ==
    IF /\ 1 < i /\ i < Len(cache)
       /\ ~cache[i - 1].listed /\ ~cache[i + 1].listed
    THEN SubSeq(cache, 1, i - 2)
         \o <<OnceEntries(cache[i - 1].run + cache[i + 1].run)>>
         \o SubSeq(cache, i + 2, Len(cache))
    ELSE SubSeq(cache, 1, i - 1) \o SubSeq(cache, i + 1, Len(cache))

\* a full cache drops its least recently used entry
EvictOldest(cache) ==
    IF CacheSize(cache) < LRU_MAXSIZE THEN cache
    ELSE IF Head(cache).run > 1
    THEN <<OnceEntries(Head(cache).run - 1)>> \o Tail(cache)
    ELSE Tail(cache)

\* the entry of a tuple passed once becomes the most recently used
LinkOnce(cache) ==
    IF cache # <<>> /\ ~cache[Len(cache)].listed
    THEN SubSeq(cache, 1, Len(cache) - 1) \o <<OnceEntries(cache[Len(cache)].run + 1)>>
    ELSE cache \o <<OnceEntries(1)>>

\* nothing passed since the last call with a tuple
NoneSince == [once |-> 0, listed |-> {}]

\* how many distinct other tuples were passed since the last call with the
\* tuple; the tuples passed once are counted up to LRU_MAXSIZE
OthersSince(files) == code_since[files].once + Cardinality(code_since[files].listed)

\* the count of every tuple passed before, after one more call
NoteListed(files) ==
    [t \in code_pool |->
        IF t = files THEN NoneSince
        ELSE IF t \in code_seen
        THEN [once |-> code_since[t].once, listed |-> code_since[t].listed \cup {files}]
        ELSE code_since[t]]

NoteOnce ==
    [t \in code_pool |->
        IF t \in code_seen /\ code_since[t].once < LRU_MAXSIZE
        THEN [once |-> code_since[t].once + 1, listed |-> code_since[t].listed]
        ELSE code_since[t]]

\* assignment_code(files) for one of the tuples of the pool: a hit gives the
\* cached text and makes the entry the most recently used; a miss reads the
\* files, builds the text and stores it, dropping the oldest entry of a full
\* cache
CallAssignmentCode(files) ==
    /\ pc = "code"
    /\ LET i == IndexOf(code_cache, files)
           again == files \in code_seen
           recent == again /\ OthersSince(files) < LRU_MAXSIZE
       IN  IF i # 0
           THEN /\ code_call' = [files |-> files, fresh |-> FALSE, hit |-> TRUE,
                                 reads |-> 0, text |-> code_cache[i].text,
                                 again |-> again, recent |-> recent]
                /\ code_cache' = Unlink(code_cache, i) \o <<code_cache[i]>>
           ELSE /\ code_call' = [files |-> files, fresh |-> FALSE, hit |-> FALSE,
                                 reads |-> Len(files),
                                 text |-> assignment_code(files).value,
                                 again |-> again, recent |-> recent]
                /\ code_cache' = EvictOldest(code_cache)
                                    \o <<Entry(files, assignment_code(files).value)>>
    /\ code_seen' = code_seen \cup {files}
    /\ code_since' = NoteListed(files)
    /\ UNCHANGED <<code_pool, retry_vars, collect_vars, prompt_vars, locale_vars,
                   split_vars>>

\* assignment_code of a tuple never passed before: always a miss
CallAssignmentCodeOnce ==
    /\ pc = "code"
    /\ code_call' = [files |-> FreshTuple, fresh |-> TRUE, hit |-> FALSE,
                     reads |-> Len(FreshTuple),
                     text |-> assignment_code(FreshTuple).value,
                     again |-> FALSE, recent |-> FALSE]
    /\ code_cache' = LinkOnce(EvictOldest(code_cache))
    /\ code_since' = NoteOnce
    /\ UNCHANGED <<code_seen, code_pool, retry_vars, collect_vars, prompt_vars,
                   locale_vars, split_vars>>

\* two listed tuples that share a path: the same paths in another order, or
\* a subset
InitCode ==
    /\ code_cache = <<>>
    /\ code_seen = {}
    /\ code_pool \in { pool \in SUBSET CodeTuples :
                          Cardinality(pool) = 2 /\ <<CodeFileA, CodeFileB>> \in pool }
    /\ code_since = [t \in code_pool |-> NoneSince]
    /\ code_call = NoCodeCall
    /\ IdleLocale
    /\ IdleSplit
    /\ pc = "code"
    /\ IdleRetry
    /\ data = [tests |-> <<>>]
    /\ longrepr_list = <<>>
    /\ IdlePrompt

NextCode ==
    \/ \E files \in code_pool : CallAssignmentCode(files)
    \/ CallAssignmentCodeOnce

SpecCode == InitCode /\ [][NextCode]_vars

-----------------------------------------------------------------------------
(* Properties of the cache of assignment_code *)

Called == code_call # NoCodeCall

\* the text the body of assignment_code builds from the files of the tuple
BuiltFrom(files) == assignment_code(files).value

\* C19 as stated: a call returns the text built from the files of its own
\* tuple in the order of the tuple, and a call with a tuple passed before
\* returns it without reading the files again.
C19_NoLeakNoReread_Original ==
    Called => /\ code_call.text = BuiltFrom(code_call.files)
              /\ code_call.again => (code_call.hit /\ code_call.reads = 0)

\* C19: a call returns the text built from the files of its own tuple in
\* the order of the tuple, whatever was cached for other tuples; the cache
\* holds at most 128 entries, each with the text of its own tuple; and a
\* call with a tuple passed before returns the text without reading a file
\* exactly when fewer than 128 distinct other tuples were passed since the
\* last call with it: after 128 others the files are read again.
C19_NoLeak ==
    /\ Called => code_call.text = BuiltFrom(code_call.files)
    /\ CacheSize(code_cache) <= LRU_MAXSIZE
    /\ \A i \in 1 .. Len(code_cache) :
          code_cache[i].listed => code_cache[i].text = BuiltFrom(code_cache[i].key)
    /\ (Called /\ code_call.again) =>
          /\ code_call.hit <=> code_call.recent
          /\ code_call.hit => code_call.reads = 0
          /\ ~code_call.hit => code_call.reads = Len(code_call.files)

C19_Witness ==
    /\ code_call.files = <<CodeFileA, CodeFileB>>
    /\ code_call.again
    /\ code_call.hit
    /\ code_call.reads = 0
    /\ code_call.recent
    /\ CacheSize(code_cache) = LRU_MAXSIZE
    /\ code_cache[1].listed
    /\ <<CodeFileB, CodeFileA>> \in code_seen
    /\ IndexOf(code_cache, <<CodeFileB, CodeFileA>>) # 0

====
